---------------------------- MODULE Spec2Model ----------------------------
(***************************************************************************)
(* Model of the DEF 14A pipeline of the edgar repository:                  *)
(*   edgar_scraper.py            validate_filing_content                   *)
(*   parse_exec_compensation.py  identify_headings, extract_sections,      *)
(*                               get_compensation_section                  *)
(*   edgar_scraper.py            process_filing, _make_request, run        *)
(*   parse_exec_compensation.py  process_companies, main                   *)
(* A str is a sequence of one-character strings.  An HTML document is a    *)
(* sequence of elements; an element has a tag name, a class attribute, a   *)
(* style attribute and the text nodes it holds, in document order.         *)
(***************************************************************************)
EXTENDS Integers, Sequences, FiniteSets, TLC

VARIABLES content, pc, headings, sections, relevant, verdict,
          filings, disk, returned,
          companies, next_company, processing_status, visits, extractions, run,
          executives, executive_data,
          max_retries, requests,
          ciks, max_workers, futures, ledger, output_dir, now

vars == <<content, pc, headings, sections, relevant, verdict,
          filings, disk, returned,
          companies, next_company, processing_status, visits, extractions, run,
          executives, executive_data,
          max_retries, requests,
          ciks, max_workers, futures, ledger, output_dir, now>>

\* the state of one process_filing call: the row of the table `filings` for its
\* (cik, filing_date), the file at its path, and the value the call returned
filing_vars == <<filings, disk, returned>>

\* the state of process_companies: the rows its query returned, the position of
\* its loop, the table `processing_status`, and per company how often the loop
\* body went past the skip test and how often the extractor was called, the
\* list the extractor returned last, and the committed rows of the table
\* `executive_data`
company_vars == <<companies, next_company, processing_status, visits, extractions, run,
                  executives, executive_data>>

\* the state of _make_request: the constructor setting and the calls made
request_vars == <<max_retries, requests>>

\* the state of run(): its arguments, the futures of the pool (one
\* process_company call each, with the locals of its process_filing call), the
\* table `filings` and the output directory by cik, and the clock
pool_vars == <<ciks, max_workers, futures, ledger, output_dir, now>>

(***************************************************************************)
(* Bounds of the model.                                                    *)
(***************************************************************************)
MaxValidityNodes == 3
MaxBlocks == 3
MaxSections == 2
MaxCompanies == 2
MaxRuns == 2
MaxSetting == 4
MaxRequests == 3

MaxTextNodes == 2

MaxFutures == 2
MaxWorkers == 2

(***************************************************************************)
(* str primitives.                                                         *)
(***************************************************************************)
UpperLetters ==
    <<"A","B","C","D","E","F","G","H","I","J","K","L","M",
      "N","O","P","Q","R","S","T","U","V","W","X","Y","Z">>
LowerLetters ==
    <<"a","b","c","d","e","f","g","h","i","j","k","l","m",
      "n","o","p","q","r","s","t","u","v","w","x","y","z">>
UpperSet == {UpperLetters[i] : i \in 1..Len(UpperLetters)}
LowerSet == {LowerLetters[i] : i \in 1..Len(LowerLetters)}
Whitespace == {" ", "\n", "\t"}

ToLower == [c \in UpperSet |->
              LowerLetters[CHOOSE i \in 1..Len(UpperLetters) : UpperLetters[i] = c]]

\* str.lower()
lower(s) == [i \in 1..Len(s) |-> IF s[i] \in UpperSet THEN ToLower[s[i]] ELSE s[i]]

\* str.isupper(): at least one cased character and no lowercase one
isupper(s) ==
    /\ \E i \in 1..Len(s) : s[i] \in UpperSet
    /\ \A i \in 1..Len(s) : s[i] \notin LowerSet

\* str.endswith(c) for a one-character suffix
endswith(s, c) == Len(s) > 0 /\ s[Len(s)] = c

SetMin(S) == CHOOSE x \in S : \A y \in S : x <= y
SetMax(S) == CHOOSE x \in S : \A y \in S : x >= y

\* str.strip()
strip(s) ==
    IF \A i \in 1..Len(s) : s[i] \in Whitespace THEN <<>>
    ELSE LET first == CHOOSE i \in 1..Len(s) :
                         s[i] \notin Whitespace /\ \A j \in 1..(i - 1) : s[j] \in Whitespace
             last == CHOOSE i \in 1..Len(s) :
                         s[i] \notin Whitespace /\ \A j \in (i + 1)..Len(s) : s[j] \in Whitespace
         IN  SubSeq(s, first, last)

\* re.sub(r'\s+', ' ', s): every maximal run of whitespace becomes one space
re_sub_ws(s) ==
    LET kept == SelectSeq([i \in 1..Len(s) |-> i],
                          LAMBDA i : s[i] \notin Whitespace
                                     \/ i = 1 \/ s[i-1] \notin Whitespace)
    IN  [k \in 1..Len(kept) |-> IF s[kept[k]] \in Whitespace THEN " " ELSE s[kept[k]]]

\* w occurs in s at position p (1-based)
WordAt(w, s, p) ==
    /\ p >= 1
    /\ p + Len(w) - 1 <= Len(s)
    /\ \A j \in 1..Len(w) : s[p + j - 1] = w[j]

\* Python's `h in t` for two str (the empty str is in every str; a position
\* is tried only where the first character agrees)
In(h, t) ==
    \/ h = <<>>
    \/ \E p \in 1..(Len(t) - Len(h) + 1) : t[p] = h[1] /\ WordAt(h, t, p)

\* the words of ws occur from position p on, separated by \s+
RECURSIVE PhraseAt(_, _, _, _)
PhraseAt(ws, k, s, p) ==
    /\ WordAt(ws[k], s, p)
    /\ \/ k = Len(ws)
       \/ \E n \in 1..(Len(s) - p - Len(ws[k]) + 1) :
             /\ \A q \in 0..(n - 1) : s[p + Len(ws[k]) + q] \in Whitespace
             /\ PhraseAt(ws, k + 1, s, p + Len(ws[k]) + n)

\* re.search of an alternation of \s+ separated phrases
re_search(pattern, s) ==
    \E ws \in pattern : \E p \in 1..Len(s) : PhraseAt(ws, 1, s, p)

\* '\n'.join(parts) and ''.join(parts)
RECURSIVE join(_, _)
join(sep, parts) ==
    IF parts = <<>> THEN <<>>
    ELSE IF Len(parts) = 1 THEN parts[1]
    ELSE parts[1] \o sep \o join(sep, Tail(parts))

Rep(c, n) == [i \in 1..n |-> c]

(***************************************************************************)
(* The parsed document (BeautifulSoup).                                    *)
(***************************************************************************)
Elem(t, c, st, strs) == [tag |-> t, class |-> c, style |-> st, strings |-> strs]

\* soup.find_all(string=True): every text node, in document order
RECURSIVE find_all_strings(_)
find_all_strings(doc) ==
    IF doc = <<>> THEN <<>> ELSE doc[1].strings \o find_all_strings(Tail(doc))

\* elem.get_text(): the element's text nodes, concatenated as they are
get_text(e) == join(<<>>, e.strings)

\* soup.get_text()
soup_get_text(doc) == join(<<>>, find_all_strings(doc))

\* [elem.strip() for elem in strs if elem.strip()]
stripped_nonempty(strs) ==
    LET kept == SelectSeq(strs, LAMBDA t : strip(t) # <<>>)
    IN  [k \in 1..Len(kept) |-> strip(kept[k])]

(***************************************************************************)
(* edgar_scraper.py: the table `filings` and the output directory.         *)
(***************************************************************************)
Row(st, path) == [status |-> st, file_path |-> path]
NoRow == Row("absent", "NULL")
File(data) == [exists |-> TRUE, data |-> data]
NoFile == [exists |-> FALSE, data |-> <<>>]

\* no process_filing call has been made
FilingIdle ==
    /\ filings = NoRow
    /\ disk = NoFile
    /\ returned = "none"

(***************************************************************************)
(* parse_exec_compensation.py: the table `processing_status`.              *)
(***************************************************************************)
Ciks == 1..MaxCompanies
Status(st, msg) == [status |-> st, error_msg |-> msg]
NoStatus == Status("absent", "NULL")

\* init_db: the table is dropped and created empty
EmptyStatusTable == [c \in Ciks |-> NoStatus]
NoCounts == [c \in Ciks |-> 0]

\* init_db: the table `executive_data` is dropped and created empty; a row is
\* held by its exec_name under its cik
NoExecutiveData == [c \in Ciks |-> {}]

\* process_companies is not in use
CompaniesIdle ==
    /\ companies = <<>>
    /\ next_company = 0
    /\ processing_status = EmptyStatusTable
    /\ visits = NoCounts
    /\ extractions = NoCounts
    /\ run = 0
    /\ executives = <<>>
    /\ executive_data = NoExecutiveData

\* _make_request is not in use
RequestIdle ==
    /\ max_retries = 3
    /\ requests = <<>>

(***************************************************************************)
(* edgar_scraper.py: run.  The table `filings` with all its columns, one   *)
(* filing per cik, and the files of the output directory by cik.           *)
(***************************************************************************)
LedgerRow(st, path, url, at) ==
    [status |-> st, file_path |-> path, url |-> url, last_updated |-> at]
NoLedgerRow == LedgerRow("absent", "NULL", "NULL", 0)
EmptyLedger == [c \in Ciks |-> NoLedgerRow]
EmptyDir == [c \in Ciks |-> NoFile]

\* run is not in use
PoolIdle ==
    /\ ciks = <<>>
    /\ max_workers = 1
    /\ futures = <<>>
    /\ ledger = EmptyLedger
    /\ output_dir = EmptyDir
    /\ now = 0

(***************************************************************************)
(* edgar_scraper.py: validate_filing_content                               *)
(***************************************************************************)
w_proxy == <<"p","r","o","x","y">>
w_statement == <<"s","t","a","t","e","m","e","n","t">>
w_executive == <<"e","x","e","c","u","t","i","v","e">>
w_compensation == <<"c","o","m","p","e","n","s","a","t","i","o","n">>
w_discussion == <<"d","i","s","c","u","s","s","i","o","n">>
w_board == <<"b","o","a","r","d">>
w_of == <<"o","f">>
w_directors == <<"d","i","r","e","c","t","o","r","s">>
w_corporate == <<"c","o","r","p","o","r","a","t","e">>
w_governance == <<"g","o","v","e","r","n","a","n","c","e">>
w_stock == <<"s","t","o","c","k">>
w_share == <<"s","h","a","r","e">>
w_ownership == <<"o","w","n","e","r","s","h","i","p">>
w_holdings == <<"h","o","l","d","i","n","g","s">>

\* the four regular expressions, each as its set of alternatives
required_terms ==
    << { <<w_proxy, w_statement>> },
       { <<w_executive, w_compensation>>, <<w_compensation, w_discussion>> },
       { <<w_board, w_of, w_directors>>, <<w_corporate, w_governance>> },
       { <<a, b>> : a \in {w_stock, w_share}, b \in {w_ownership, w_holdings} } >>

\* the loop `for term in required_terms: if re.search(...): matches += 1`
RECURSIVE count_matches(_, _)
count_matches(text_content, k) ==
    IF k > Len(required_terms) THEN 0
    ELSE (IF re_search(required_terms[k], text_content) THEN 1 ELSE 0)
         + count_matches(text_content, k + 1)

\* The value returned is `basic_valid and has_proxy`: False, None or a match
\* object; only the match object is truthy.
\* (mutation: the verdict is the match count alone)
validate_count_only(c) ==
    IF c = <<>> THEN "False"
    ELSE IF count_matches(lower(soup_get_text(c)), 1) >= 2 THEN "Match" ELSE "False"

validate_filing_content(c) ==
    IF c = <<>> THEN "False"
    ELSE LET text_content == lower(soup_get_text(c))
             matches == count_matches(text_content, 1)
             basic_valid == matches >= 2
             has_proxy == IF re_search({ <<w_proxy, w_statement>> }, text_content)
                          THEN "Match" ELSE "None"
         IN  IF basic_valid THEN has_proxy ELSE "False"

Truthy(v) == v = "Match"

\* documents the validity gate is tried on
P(s) == Elem("p", <<>>, <<>>, <<s>>)

ValidityNodes ==
    { <<"P","r","o","x","y"," ","S","t","a","t","e","m","e","n","t",".">>,
      <<"P","R","O","X","Y","\n"," ">>,
      <<"s","t","a","t","e","m","e","n","t","s"," ">>,
      <<"E","x","e","c","u","t","i","v","e"," ","C","o","m","p","e","n","s","a","t","i","o","n",";">>,
      <<"B","o","a","r","d"," ","o","f","\t","D","i","r","e","c","t","o","r","s"," ">>,
      <<"s","t","o","c","k"," ","o","w","n","e","r","s","h","i","p">>,
      <<"a","n","n","u","a","l"," ","r","e","p","o","r","t">> }

ValidityDocs ==
    UNION { [1..n -> {P(s) : s \in ValidityNodes}] : n \in 0..MaxValidityNodes }

InitValidate ==
    /\ content \in ValidityDocs
    /\ pc = "fetched"
    /\ headings = <<>>
    /\ sections = <<>>
    /\ relevant = [none |-> TRUE, items |-> <<>>]
    /\ verdict = "unset"
    /\ FilingIdle
    /\ CompaniesIdle
    /\ RequestIdle
    /\ PoolIdle

ValidateFilingContent ==
    /\ pc = "fetched"
    /\ verdict' = validate_filing_content(content)
    /\ pc' = "validated"
    /\ UNCHANGED <<content, headings, sections, relevant>>
    /\ UNCHANGED <<filing_vars, company_vars, request_vars, pool_vars>>

NextValidate == ValidateFilingContent

SpecValidate == InitValidate /\ [][NextValidate]_vars

\* which of the four patterns match the lower-cased document text
MatchingTerms(c) ==
    {k \in 1..Len(required_terms) : re_search(required_terms[k], lower(soup_get_text(c)))}

\* C1: the verdict is true if and only if at least two of the four patterns
\* match the document text and the 'proxy statement' pattern is one of them;
\* empty content is invalid.
C1_ValidIffTwoTermsWithProxy ==
    pc = "validated" =>
        /\ Truthy(verdict) <=>
              (Cardinality(MatchingTerms(content)) >= 2 /\ 1 \in MatchingTerms(content))
        /\ (content = <<>> => ~Truthy(verdict))

\* a text matching only 'proxy statement' and 'executive compensation' was accepted
C1_Witness ==
    /\ pc = "validated"
    /\ MatchingTerms(content) = {1, 2}
    /\ Truthy(verdict)

(***************************************************************************)
(* edgar_scraper.py: process_filing                                        *)
(* None and the empty str are both falsy at `if not content`: the empty     *)
(* document stands for both.                                               *)
(***************************************************************************)
kw_proxy_statement ==
    <<"p","r","o","x","y"," ","s","t","a","t","e","m","e","n","t">>

FilePath == "cik_date_def14a.htm"

\* 'proxy statement' in content.lower(), on the markup as served: the words
\* lie in one text node
has_proxy_literal(response) ==
    LET ts == find_all_strings(response)
    IN  \E k \in 1..Len(ts) : In(kw_proxy_statement, lower(ts[k]))

\* the filing document as served is returned if it holds 'proxy statement',
\* None otherwise (also when a request failed or no link was found)
get_filing_content(response) ==
    IF has_proxy_literal(response) THEN response ELSE <<>>

\* what the filing link may serve; the empty document stands for no answer
Responses == ValidityDocs

InitFiling ==
    /\ content = <<>>
    /\ pc = "start"
    /\ headings = <<>>
    /\ sections = <<>>
    /\ relevant = [none |-> TRUE, items |-> <<>>]
    /\ verdict = "unset"
    /\ FilingIdle
    /\ CompaniesIdle
    /\ RequestIdle
    /\ PoolIdle

\* the SELECT at the top of process_filing
CheckProcessed ==
    /\ pc = "start"
    /\ IF filings.status = "completed"
       THEN returned' = "True" /\ pc' = "returned"
       ELSE returned' = returned /\ pc' = "checked"
    /\ UNCHANGED <<content, headings, sections, relevant, verdict, filings, disk>>
    /\ UNCHANGED <<company_vars, request_vars, pool_vars>>

\* content = self.get_filing_content(filing['doc_url'])
GetFilingContent ==
    /\ pc = "checked"
    /\ \E response \in Responses : content' = get_filing_content(response)
    /\ pc' = "fetched"
    /\ UNCHANGED <<headings, sections, relevant, verdict>>
    /\ UNCHANGED <<filing_vars, company_vars, request_vars, pool_vars>>

\* the second operand of `not content or not self.validate_filing_content(content)`
ValidateFetched ==
    /\ content # <<>>
    /\ ValidateFilingContent

\* (mutation: the rejected document is written all the same)
RejectFilingWritesFile ==
    /\ \/ pc = "fetched" /\ content = <<>>
       \/ pc = "validated" /\ ~Truthy(verdict)
    /\ filings' = Row("invalid", "NULL")
    /\ disk' = File(content)
    /\ returned' = "False"
    /\ pc' = "returned"
    /\ UNCHANGED <<content, headings, sections, relevant, verdict>>
    /\ UNCHANGED <<company_vars, request_vars, pool_vars>>

\* self._update_filing_status(cik, filing, 'invalid'); return False
RejectFiling ==
    /\ \/ pc = "fetched" /\ content = <<>>
       \/ pc = "validated" /\ ~Truthy(verdict)
    /\ filings' = Row("invalid", "NULL")
    /\ disk' = disk
    /\ returned' = "False"
    /\ pc' = "returned"
    /\ UNCHANGED <<content, headings, sections, relevant, verdict>>
    /\ UNCHANGED <<company_vars, request_vars, pool_vars>>

\* the file is written and the row set to 'completed'; if open() or write()
\* raises, the handler sets the row to 'error'
SaveFiling ==
    /\ pc = "validated"
    /\ Truthy(verdict)
    /\ \/ /\ disk' = File(content)
          /\ filings' = Row("completed", FilePath)
          /\ returned' = "True"
       \/ /\ disk' = disk
          /\ filings' = Row("error", "NULL")
          /\ returned' = "False"
    /\ pc' = "returned"
    /\ UNCHANGED <<content, headings, sections, relevant, verdict>>
    /\ UNCHANGED <<company_vars, request_vars, pool_vars>>

\* process_company calls process_filing again (the same filing, on a later run)
ProcessFilingAgain ==
    /\ pc = "returned"
    /\ pc' = "start"
    /\ content' = <<>>
    /\ verdict' = "unset"
    /\ returned' = "none"
    /\ UNCHANGED <<headings, sections, relevant, filings, disk>>
    /\ UNCHANGED <<company_vars, request_vars, pool_vars>>

NextFiling ==
    \/ CheckProcessed
    \/ GetFilingContent
    \/ ValidateFetched
    \/ RejectFiling
    \/ SaveFiling
    \/ ProcessFilingAgain

SpecFiling == InitFiling /\ [][NextFiling]_vars

\* C17: a process_filing call that gets no content, or content the validity
\* gate rejects, writes nothing to disk, leaves the row with status 'invalid'
\* and a null file path, and returns False.
C17_RejectedNotStored ==
    [][ ( /\ pc' = "returned"
          /\ \/ pc = "fetched" /\ content = <<>>
             \/ pc = "validated" /\ ~Truthy(verdict) )
        => ( /\ disk' = disk
             /\ filings' = Row("invalid", "NULL")
             /\ returned' = "False" ) ]_vars

\* a call returned after the gate had rejected a fetched document
C17_Witness ==
    /\ pc = "returned"
    /\ content # <<>>
    /\ ~Truthy(verdict)
    /\ verdict # "unset"
    /\ filings = Row("invalid", "NULL")
    /\ returned = "False"

(***************************************************************************)
(* edgar_scraper.py: run, process_company, process_filing under the pool   *)
(* Every cik has one filing; a cik listed twice gives two futures that     *)
(* work on the same row and the same file path.  A step is one access to   *)
(* the database, the network or the file system.                           *)
(***************************************************************************)
DocUrl == "doc_url"

Future(cik, at, content_, returned_) ==
    [cik |-> cik, pc |-> at, content |-> content_, returned |-> returned_]

\* what the filing link may serve: no answer, a valid proxy statement, a
\* document with the words 'proxy statement' that the gate rejects, a document
\* without them
PoolResponses ==
    { <<>>,
      << P(<<"P","r","o","x","y"," ","S","t","a","t","e","m","e","n","t",".">>),
         P(<<"E","x","e","c","u","t","i","v","e"," ","C","o","m","p","e","n","s","a","t","i","o","n",";">>) >>,
      << P(<<"P","r","o","x","y"," ","S","t","a","t","e","m","e","n","t",".">>),
         P(<<"a","n","n","u","a","l"," ","r","e","p","o","r","t">>) >>,
      << P(<<"a","n","n","u","a","l"," ","r","e","p","o","r","t">>) >> }

CikLists == UNION { [1..n -> Ciks] : n \in 1..MaxFutures }

InitRun ==
    /\ content = <<>>
    /\ pc = "run"
    /\ headings = <<>>
    /\ sections = <<>>
    /\ relevant = [none |-> TRUE, items |-> <<>>]
    /\ verdict = "unset"
    /\ FilingIdle
    /\ CompaniesIdle
    /\ RequestIdle
    /\ ciks \in CikLists
    /\ max_workers \in 1..MaxWorkers
    /\ futures = [k \in 1..Len(ciks) |-> Future(ciks[k], "queued", <<>>, "none")]
    /\ ledger = EmptyLedger
    /\ output_dir = EmptyDir
    /\ now = 0

\* the threads of the pool that are inside process_company
Running == {k \in 1..Len(futures) : futures[k].pc \notin {"queued", "returned"}}

\* (mutation: a null filepath leaves the column as it is)
update_filing_status_keeps_path(table, cik, status, filepath, at) ==
    [table EXCEPT ![cik] =
        LedgerRow(status, IF filepath = "NULL" THEN table[cik].file_path ELSE filepath,
                  DocUrl, at)]

\* INSERT OR REPLACE INTO filings (cik, filing_date, file_path, status,
\* last_updated, url): the whole row is replaced
update_filing_status(table, cik, status, filepath, at) ==
    [table EXCEPT ![cik] = LedgerRow(status, filepath, DocUrl, at)]

\* a free thread of the pool takes the next submitted process_company call
StartWorker(k) ==
    /\ futures[k].pc = "queued"
    /\ \A j \in 1..(k - 1) : futures[j].pc # "queued"
    /\ Cardinality(Running) < max_workers
    /\ futures' = [futures EXCEPT ![k].pc = "start"]
    /\ UNCHANGED <<ciks, max_workers, ledger, output_dir, now>>
    /\ UNCHANGED <<content, pc, headings, sections, relevant, verdict>>
    /\ UNCHANGED <<filing_vars, company_vars, request_vars>>

\* (mutation: the row is read and the filing fetched all the same)
SelectStatusNoSkip(k) ==
    /\ futures[k].pc = "start"
    /\ futures' = [futures EXCEPT ![k].pc = "checked"]
    /\ UNCHANGED <<ciks, max_workers, ledger, output_dir, now>>
    /\ UNCHANGED <<content, pc, headings, sections, relevant, verdict>>
    /\ UNCHANGED <<filing_vars, company_vars, request_vars>>

\* SELECT status FROM filings ...; if result and result[0] == 'completed':
\* return True
SelectStatus(k) ==
    /\ futures[k].pc = "start"
    /\ futures' = [futures EXCEPT ![k] =
                      IF ledger[futures[k].cik].status = "completed"
                      THEN Future(@.cik, "returned", @.content, "True")
                      ELSE Future(@.cik, "checked", @.content, @.returned)]
    /\ UNCHANGED <<ciks, max_workers, ledger, output_dir, now>>
    /\ UNCHANGED <<content, pc, headings, sections, relevant, verdict>>
    /\ UNCHANGED <<filing_vars, company_vars, request_vars>>

\* content = self.get_filing_content(filing['doc_url'])
FetchFiling(k) ==
    /\ futures[k].pc = "checked"
    /\ \E response \in PoolResponses :
           futures' = [futures EXCEPT ![k] =
                          Future(@.cik, "fetched", get_filing_content(response), @.returned)]
    /\ UNCHANGED <<ciks, max_workers, ledger, output_dir, now>>
    /\ UNCHANGED <<content, pc, headings, sections, relevant, verdict>>
    /\ UNCHANGED <<filing_vars, company_vars, request_vars>>

\* not content or not self.validate_filing_content(content)
rejected(content_) ==
    IF content_ = <<>> THEN TRUE ELSE ~Truthy(validate_filing_content(content_))

\* self._update_filing_status(cik, filing, 'invalid'); return False
MarkInvalid(k) ==
    /\ futures[k].pc = "fetched"
    /\ rejected(futures[k].content)
    /\ ledger' = update_filing_status(ledger, futures[k].cik, "invalid", "NULL", now + 1)
    /\ now' = now + 1
    /\ futures' = [futures EXCEPT ![k] = Future(@.cik, "returned", @.content, "False")]
    /\ UNCHANGED <<ciks, max_workers, output_dir>>
    /\ UNCHANGED <<content, pc, headings, sections, relevant, verdict>>
    /\ UNCHANGED <<filing_vars, company_vars, request_vars>>

\* with open(filepath, 'w') as f: f.write(content); if it raises, the handler
\* sets the row to 'error' and the call returns False
WriteFile(k) ==
    /\ futures[k].pc = "fetched"
    /\ ~rejected(futures[k].content)
    /\ \/ /\ output_dir' = [output_dir EXCEPT ![futures[k].cik] = File(futures[k].content)]
          /\ futures' = [futures EXCEPT ![k].pc = "written"]
          /\ UNCHANGED <<ledger, now>>
       \/ /\ ledger' = update_filing_status(ledger, futures[k].cik, "error", "NULL", now + 1)
          /\ now' = now + 1
          /\ futures' = [futures EXCEPT ![k] = Future(@.cik, "returned", @.content, "False")]
          /\ UNCHANGED output_dir
    /\ UNCHANGED <<ciks, max_workers>>
    /\ UNCHANGED <<content, pc, headings, sections, relevant, verdict>>
    /\ UNCHANGED <<filing_vars, company_vars, request_vars>>

\* self._update_filing_status(cik, filing, 'completed', filepath); return True
MarkCompleted(k) ==
    /\ futures[k].pc = "written"
    /\ ledger' = update_filing_status(ledger, futures[k].cik, "completed", FilePath, now + 1)
    /\ now' = now + 1
    /\ futures' = [futures EXCEPT ![k] = Future(@.cik, "returned", @.content, "True")]
    /\ UNCHANGED <<ciks, max_workers, output_dir>>
    /\ UNCHANGED <<content, pc, headings, sections, relevant, verdict>>
    /\ UNCHANGED <<filing_vars, company_vars, request_vars>>

NextRun ==
    \E k \in 1..Len(futures) :
        \/ StartWorker(k)
        \/ SelectStatus(k)
        \/ FetchFiling(k)
        \/ MarkInvalid(k)
        \/ WriteFile(k)
        \/ MarkCompleted(k)

SpecRun == InitRun /\ [][NextRun]_vars

\* C22: a process_filing call that finds its row 'completed' returns True
\* without fetching, and leaves every row (status, file_path, url,
\* last_updated) and every stored file as they are; when the calls run one
\* after another, no call changes a row that is 'completed' or its file.
C22_CompletedIsLeftAlone ==
    [][ /\ \A k \in 1..Len(futures) :
              ( /\ futures[k].pc = "start"
                /\ futures'[k] # futures[k]
                /\ ledger[futures[k].cik].status = "completed" )
              => ( /\ futures'[k] = Future(futures[k].cik, "returned", <<>>, "True")
                   /\ ledger' = ledger
                   /\ output_dir' = output_dir
                   /\ now' = now )
        /\ max_workers = 1 =>
              \A c \in Ciks :
                  ledger[c].status = "completed" =>
                      ledger'[c] = ledger[c] /\ output_dir'[c] = output_dir[c] ]_vars

\* a call returned True without having fetched anything, on a row another
\* call had completed
C22_Witness ==
    \E k \in 1..Len(futures) :
        /\ futures[k] = Future(futures[k].cik, "returned", <<>>, "True")
        /\ ledger[futures[k].cik] = LedgerRow("completed", FilePath, DocUrl, 1)
        /\ now = 1
        /\ max_workers = 1

\* C23: whatever the interleaving of the workers, also with a cik listed
\* twice, a row that is 'completed' is never overwritten with 'invalid' or
\* 'error' and never loses its file_path.
C23_CompletedNeverOverwritten ==
    [][ \A c \in Ciks :
           ledger[c].status = "completed" =>
               /\ ledger'[c].status \notin {"invalid", "error"}
               /\ ledger'[c].file_path # "NULL" ]_vars

\* C24: in every reachable state of the table a row has a file_path if and
\* only if its status is 'completed'; a row with status 'invalid' or 'error'
\* has a null file_path, whatever row it replaced.
C24_FilePathIffCompleted ==
    \A c \in Ciks :
        /\ ledger[c].file_path # "NULL" <=> ledger[c].status = "completed"
        /\ ledger[c].status \in {"invalid", "error"} => ledger[c].file_path = "NULL"

\* a row with status 'invalid' or 'error' that replaced a 'completed' row: one
\* call for the cik returned True after fetching, and the row was written at
\* least twice
C24_Witness ==
    \E c \in Ciks :
        /\ ledger[c].status \in {"invalid", "error"}
        /\ ledger[c].last_updated >= 2
        /\ \E k \in 1..Len(futures) :
               /\ futures[k].cik = c
               /\ futures[k].returned = "True"
               /\ futures[k].content # <<>>

(***************************************************************************)
(* edgar_scraper.py: _make_request under backoff.on_exception               *)
(* `requests` is the list of the calls made: for each the number of HTTP    *)
(* attempts so far and how the call ended.                                  *)
(***************************************************************************)
MaxTries == 3

\* max_tries=3 in the decorator: the number of attempts backoff allows; the
\* constructor's setting is stored in self.max_retries and never read
max_tries(setting) == MaxTries

Call(n, how) == [attempts |-> n, outcome |-> how]

InitRequest ==
    /\ content = <<>>
    /\ pc = "requests"
    /\ headings = <<>>
    /\ sections = <<>>
    /\ relevant = [none |-> TRUE, items |-> <<>>]
    /\ verdict = "unset"
    /\ FilingIdle
    /\ CompaniesIdle
    /\ max_retries \in 1..MaxSetting
    /\ requests = <<>>
    /\ PoolIdle

\* self._make_request(url) is called
MakeRequest ==
    /\ pc = "requests"
    /\ Len(requests) < MaxRequests
    /\ IF requests = <<>> THEN TRUE ELSE requests[Len(requests)].outcome # "pending"
    /\ requests' = Append(requests, Call(0, "pending"))
    /\ UNCHANGED <<content, pc, headings, sections, relevant, verdict, max_retries>>
    /\ UNCHANGED <<filing_vars, company_vars, pool_vars>>

\* one requests.get: a response, or an exception that backoff answers with
\* another attempt until the allowed number is reached, and then re-raises
Attempt ==
    /\ requests # <<>>
    /\ requests[Len(requests)].outcome = "pending"
    /\ LET n == requests[Len(requests)].attempts + 1
       IN  \E failed \in BOOLEAN :
               requests' = [requests EXCEPT ![Len(requests)] =
                               IF ~failed THEN Call(n, "response")
                               ELSE IF n >= max_tries(max_retries) THEN Call(n, "raised")
                               ELSE Call(n, "pending")]
    /\ UNCHANGED <<content, pc, headings, sections, relevant, verdict, max_retries>>
    /\ UNCHANGED <<filing_vars, company_vars, pool_vars>>

NextRequest == MakeRequest \/ Attempt

SpecRequest == InitRequest /\ [][NextRequest]_vars

\* C19: whatever the constructor's max_retries, no call of _make_request makes
\* more than max_retries HTTP attempts, and a call gives up (the error
\* propagates) only on attempt number max_retries.
C19_AttemptsBoundedBySetting ==
    \A k \in 1..Len(requests) :
        /\ requests[k].attempts <= max_retries
        /\ requests[k].outcome = "raised" => requests[k].attempts = max_retries

(***************************************************************************)
(* parse_exec_compensation.py: identify_headings                           *)
(* A confidence is held in tenths: 0.9 is 9.                               *)
(***************************************************************************)
StyleTextLimit == 100
PatternTextLimit == 100
UpperMinLen == 10
HeadingMaxLen == 200
BodyMinLen == 100
KeywordWindow == 1000

Scored(t, c) == [text |-> t, score |-> c]

pat_heading == <<"h","e","a","d","i","n","g">>
pat_title == <<"t","i","t","l","e">>
pat_header == <<"h","e","a","d","e","r">>
pat_section == <<"s","e","c","t","i","o","n">>
heading_patterns == <<pat_heading, pat_title, pat_header, pat_section>>

\* re.compile('|'.join(heading_patterns), re.I) searched in the class attribute
class_matches(cls) ==
    \E k \in 1..Len(heading_patterns) : In(heading_patterns[k], lower(cls))

re_font_weight == <<"f","o","n","t","-","w","e","i","g","h","t">>
re_bold == <<"b","o","l","d">>
re_font_size == <<"f","o","n","t","-","s","i","z","e">>

\* a.*?b: a, then b later on the same line
GapMatch(a, b, s) ==
    \E i \in 1..Len(s) : \E j \in (i + Len(a))..Len(s) :
        /\ WordAt(a, s, i)
        /\ WordAt(b, s, j)
        /\ \A q \in (i + Len(a))..(j - 1) : s[q] # "\n"

\* re.compile('(font-weight.*?bold|font-size.*?1[2-9]px)', re.I) searched in
\* the style attribute
style_matches(st) ==
    \/ GapMatch(re_font_weight, re_bold, lower(st))
    \/ \E d \in {"2","3","4","5","6","7","8","9"} :
          GapMatch(re_font_size, <<"1", d, "p", "x">>, lower(st))

\* for tag in ['h1','h2','h3']: for h in soup.find_all(tag): append (text, 0.9)
tag_candidates(doc, tag) ==
    LET hs == SelectSeq(doc, LAMBDA e : e.tag = tag)
    IN  [i \in 1..Len(hs) |-> Scored(strip(get_text(hs[i])), 9)]

class_candidates(doc) ==
    LET es == SelectSeq(doc, LAMBDA e : class_matches(e.class))
    IN  [i \in 1..Len(es) |-> Scored(strip(get_text(es[i])), 8)]

style_candidates(doc) ==
    LET es == SelectSeq(doc, LAMBDA e :
                  style_matches(e.style) /\ Len(strip(get_text(e))) < StyleTextLimit)
    IN  [i \in 1..Len(es) |-> Scored(strip(get_text(es[i])), 7)]

\* (mutation: the colon test comes first)
pattern_score_colon_first(text) ==
    IF text # <<>> /\ Len(text) < PatternTextLimit
    THEN IF endswith(text, ":") THEN 5
         ELSE IF isupper(text) /\ Len(text) > UpperMinLen THEN 6
         ELSE 0
    ELSE 0

\* the confidence the text-pattern signal gives a text node, 0 for none
pattern_score(text) ==
    IF text # <<>> /\ Len(text) < PatternTextLimit
    THEN IF isupper(text) /\ Len(text) > UpperMinLen THEN 6
         ELSE IF endswith(text, ":") THEN 5
         ELSE 0
    ELSE 0

text_candidates(doc) ==
    LET ts == SelectSeq(find_all_strings(doc), LAMBDA t : pattern_score(strip(t)) # 0)
    IN  [i \in 1..Len(ts) |-> Scored(strip(ts[i]), pattern_score(strip(ts[i])))]

\* the list `headings` before deduplication
raw_headings(doc) ==
    tag_candidates(doc, "h1") \o tag_candidates(doc, "h2") \o tag_candidates(doc, "h3")
        \o class_candidates(doc) \o style_candidates(doc) \o text_candidates(doc)

\* (mutation: the whitespace runs are left as they are)
normalize_strip_only(text) == strip(text)

\* re.sub(r'\s+', ' ', text).strip()
normalize(text) == strip(re_sub_ws(text))

\* the loop `for text, score in headings` with its set `seen`
RECURSIVE dedup(_, _, _, _)
dedup(hs, k, seen, unique_headings) ==
    IF k > Len(hs) THEN unique_headings
    ELSE LET text == normalize(hs[k].text)
         IN  IF text # <<>> /\ text \notin seen /\ Len(text) < HeadingMaxLen
             THEN dedup(hs, k + 1, seen \cup {text},
                        Append(unique_headings, Scored(text, hs[k].score)))
             ELSE dedup(hs, k + 1, seen, unique_headings)

\* (mutation: a duplicate raises the kept confidence to the larger one)
RECURSIVE dedup_keep_max(_, _, _)
dedup_keep_max(hs, k, unique_headings) ==
    IF k > Len(hs) THEN unique_headings
    ELSE LET text == normalize(hs[k].text)
             known == {j \in 1..Len(unique_headings) : unique_headings[j].text = text}
         IN  IF text = <<>> \/ Len(text) >= HeadingMaxLen
             THEN dedup_keep_max(hs, k + 1, unique_headings)
             ELSE IF known = {}
             THEN dedup_keep_max(hs, k + 1,
                                 Append(unique_headings, Scored(text, hs[k].score)))
             ELSE dedup_keep_max(hs, k + 1,
                      [j \in 1..Len(unique_headings) |->
                          IF j \in known /\ hs[k].score > unique_headings[j].score
                          THEN Scored(text, hs[k].score) ELSE unique_headings[j]])

identify_headings_keep_max(doc) == dedup_keep_max(raw_headings(doc), 1, <<>>)

\* (mutation: a duplicate overwrites the kept confidence)
RECURSIVE dedup_keep_last(_, _, _)
dedup_keep_last(hs, k, unique_headings) ==
    IF k > Len(hs) THEN unique_headings
    ELSE LET text == normalize(hs[k].text)
             known == {j \in 1..Len(unique_headings) : unique_headings[j].text = text}
         IN  IF text = <<>> \/ Len(text) >= HeadingMaxLen
             THEN dedup_keep_last(hs, k + 1, unique_headings)
             ELSE IF known = {}
             THEN dedup_keep_last(hs, k + 1,
                                  Append(unique_headings, Scored(text, hs[k].score)))
             ELSE dedup_keep_last(hs, k + 1,
                      [j \in 1..Len(unique_headings) |->
                          IF j \in known
                          THEN Scored(text, hs[k].score) ELSE unique_headings[j]])

identify_headings_keep_last(doc) == dedup_keep_last(raw_headings(doc), 1, <<>>)

identify_headings(doc) == dedup(raw_headings(doc), 1, {}, <<>>)

(***************************************************************************)
(* parse_exec_compensation.py: extract_sections                            *)
(* Positions are 1-based; 0 stands for StopIteration.                      *)
(***************************************************************************)
text_elements_of(doc) == stripped_nonempty(find_all_strings(doc))

RECURSIVE stable_sort_desc(_)
stable_sort_desc(hs) ==
    IF hs = <<>> THEN <<>>
    ELSE LET best == SetMax({hs[i].score : i \in 1..Len(hs)})
         IN  SelectSeq(hs, LAMBDA h : h.score = best)
                 \o stable_sort_desc(SelectSeq(hs, LAMBDA h : h.score # best))

\* (mutation: the list is left in detection order)
sorted_left_unsorted(hs) == hs

\* sorted(headings, key=lambda x: x[1], reverse=True): stable
sorted_by_score(hs) == stable_sort_desc(hs)

\* (mutation: the last text node holding the heading is taken)
start_idx_last(text_elements, heading) ==
    LET hits == {idx \in 1..Len(text_elements) : In(heading, text_elements[idx])}
    IN  IF hits = {} THEN 0 ELSE SetMax(hits)

\* next(idx for idx, text in enumerate(text_elements) if heading in text)
start_idx(text_elements, heading) ==
    LET hits == {idx \in 1..Len(text_elements) : In(heading, text_elements[idx])}
    IN  IF hits = {} THEN 0 ELSE SetMin(hits)

\* the same search over text_elements[start_idx+1:]
next_idx(text_elements, next_heading, start) ==
    LET hits == {idx \in (start + 1)..Len(text_elements) :
                    In(next_heading, text_elements[idx])}
    IN  IF hits = {} THEN 0 ELSE SetMin(hits)

\* for next_heading, _ in headings[i+1:]: keep the smallest next_idx
RECURSIVE scan_next(_, _, _, _, _)
scan_next(text_elements, hs, k, start, end) ==
    IF k > Len(hs) THEN end
    ELSE LET nx == next_idx(text_elements, hs[k].text, start)
         IN  scan_next(text_elements, hs, k + 1, start,
                       IF nx # 0 /\ nx < end THEN nx ELSE end)

\* (mutation: the slice is headings[:i+1] instead of headings[i+1:])
end_idx_scans_before(text_elements, hs, i, start) ==
    scan_next(text_elements, SubSeq(hs, 1, i), 1, start, Len(text_elements) + 1)

end_idx(text_elements, hs, i, start) ==
    scan_next(text_elements, hs, i + 1, start, Len(text_elements) + 1)

\* sections[heading] = content on an insertion-ordered dict
dict_set(d, key, value) ==
    IF \E j \in 1..Len(d) : d[j].title = key
    THEN [j \in 1..Len(d) |-> IF d[j].title = key
                              THEN [title |-> key, body |-> value] ELSE d[j]]
    ELSE Append(d, [title |-> key, body |-> value])

\* '\n'.join(text_elements[start_idx+1:end_idx])
carve(text_elements, start, end) ==
    join(<<"\n">>, SubSeq(text_elements, start + 1, end - 1))

\* (mutation: >= instead of >)
keeps_section_ge(body) == Len(body) >= BodyMinLen

\* if len(content) > 100
keeps_section(body) == Len(body) > BodyMinLen

\* (mutation: the try block encloses the loop, so the first StopIteration ends
\* it)
RECURSIVE section_loop_aborts(_, _, _, _)
section_loop_aborts(text_elements, hs, i, secs) ==
    IF i > Len(hs) THEN secs
    ELSE LET start == start_idx(text_elements, hs[i].text)
         IN  IF start = 0 THEN secs
             ELSE LET body == carve(text_elements, start,
                                    end_idx(text_elements, hs, i, start))
                  IN  section_loop_aborts(text_elements, hs, i + 1,
                                          IF keeps_section(body)
                                          THEN dict_set(secs, hs[i].text, body) ELSE secs)

\* the loop `for i, (heading, _) in enumerate(headings)`
RECURSIVE section_loop(_, _, _, _)
section_loop(text_elements, hs, i, secs) ==
    IF i > Len(hs) THEN secs
    ELSE LET start == start_idx(text_elements, hs[i].text)
         IN  IF start = 0 THEN section_loop(text_elements, hs, i + 1, secs)
             ELSE LET body == carve(text_elements, start,
                                    end_idx(text_elements, hs, i, start))
                  IN  section_loop(text_elements, hs, i + 1,
                                   IF keeps_section(body)
                                   THEN dict_set(secs, hs[i].text, body) ELSE secs)

extract_sections(doc, hs) ==
    section_loop(text_elements_of(doc), sorted_by_score(hs), 1, <<>>)

(***************************************************************************)
(* parse_exec_compensation.py: get_compensation_section                    *)
(***************************************************************************)
kw_summary_compensation_table ==
    <<"s","u","m","m","a","r","y"," ","c","o","m","p","e","n","s","a","t","i","o","n"," ","t","a","b","l","e">>
kw_executive_compensation ==
    <<"e","x","e","c","u","t","i","v","e"," ","c","o","m","p","e","n","s","a","t","i","o","n">>
kw_compensation_discussion ==
    <<"c","o","m","p","e","n","s","a","t","i","o","n"," ","d","i","s","c","u","s","s","i","o","n">>
kw_director_compensation ==
    <<"d","i","r","e","c","t","o","r"," ","c","o","m","p","e","n","s","a","t","i","o","n">>
kw_executive_officers ==
    <<"e","x","e","c","u","t","i","v","e"," ","o","f","f","i","c","e","r","s">>
kw_board_of_directors ==
    <<"b","o","a","r","d"," ","o","f"," ","d","i","r","e","c","t","o","r","s">>
kw_biographical_information ==
    <<"b","i","o","g","r","a","p","h","i","c","a","l"," ","i","n","f","o","r","m","a","t","i","o","n">>
kw_director_nominees ==
    <<"d","i","r","e","c","t","o","r"," ","n","o","m","i","n","e","e","s">>

\* the dict section_keywords, in insertion order
section_keywords ==
    << [category |-> "compensation",
        keywords |-> <<kw_summary_compensation_table, kw_executive_compensation,
                       kw_compensation_discussion, kw_director_compensation>>],
       [category |-> "biography",
        keywords |-> <<kw_executive_officers, kw_board_of_directors,
                       kw_biographical_information, kw_director_nominees>>] >>

tag_table == <<"<","t","a","b","l","e">>

\* bool(BeautifulSoup(content, 'html.parser').find_all('table')): the text
\* holds a start tag named table, in any letter case
has_tables(text) ==
    LET t == lower(text)
    IN  \E p \in 1..Len(t) :
            /\ t[p] = "<"
            /\ WordAt(tag_table, t, p)
            /\ p + Len(tag_table) <= Len(t)
            /\ t[p + Len(tag_table)] \in Whitespace \cup {">", "/"}
            /\ \E q \in (p + Len(tag_table))..Len(t) : t[q] = ">"

\* s[:n]
prefix(s, n) == SubSeq(s, 1, IF Len(s) < n THEN Len(s) ELSE n)

\* (mutation: the body is searched whole)
body_window_whole(body) == lower(body)

\* content.lower()[:1000]
body_window(body) == prefix(lower(body), KeywordWindow)

\* any(k in heading_lower for k in keywords) or any(k in content.lower()[:1000] ...)
keyword_hit(heading_lower, window, keywords) ==
    \/ \E k \in 1..Len(keywords) : In(keywords[k], heading_lower)
    \/ \E k \in 1..Len(keywords) : In(keywords[k], window)

\* (mutation: `break` instead of `continue`: a compensation hit without a table
\* ends the section's category loop)
RECURSIVE category_loop_breaks(_, _, _, _, _)
category_loop_breaks(heading, body, tables, c, rel) ==
    IF c > Len(section_keywords) THEN rel
    ELSE IF keyword_hit(lower(heading), body_window(body), section_keywords[c].keywords)
         THEN IF section_keywords[c].category = "compensation" /\ ~tables
              THEN rel
              ELSE category_loop_breaks(heading, body, tables, c + 1,
                                        dict_set(rel, heading, body))
         ELSE category_loop_breaks(heading, body, tables, c + 1, rel)

\* for category, keywords in section_keywords.items()
RECURSIVE category_loop(_, _, _, _, _)
category_loop(heading, body, tables, c, rel) ==
    IF c > Len(section_keywords) THEN rel
    ELSE IF keyword_hit(lower(heading), body_window(body), section_keywords[c].keywords)
         THEN IF section_keywords[c].category = "compensation" /\ ~tables
              THEN category_loop(heading, body, tables, c + 1, rel)
              ELSE category_loop(heading, body, tables, c + 1, dict_set(rel, heading, body))
         ELSE category_loop(heading, body, tables, c + 1, rel)

\* (mutation: the loops are nested the other way round, categories outside and
\* sections inside)
RECURSIVE dict_update(_, _)
dict_update(rel, secs) ==
    IF secs = <<>> THEN rel
    ELSE dict_update(dict_set(rel, secs[1].title, secs[1].body), Tail(secs))

relevance_loop_by_category(secs, k, rel) ==
    LET hit(sec, c) == keyword_hit(lower(sec.title), body_window(sec.body),
                                   section_keywords[c].keywords)
        compensation == SelectSeq(secs, LAMBDA sec : hit(sec, 1) /\ has_tables(sec.body))
        biography == SelectSeq(secs, LAMBDA sec : hit(sec, 2))
    IN  dict_update(rel, compensation \o biography)

\* for heading, content in sections.items()
RECURSIVE relevance_loop(_, _, _)
relevance_loop(secs, k, rel) ==
    IF k > Len(secs) THEN rel
    ELSE relevance_loop(secs, k + 1,
             category_loop(secs[k].title, secs[k].body, has_tables(secs[k].body), 1, rel))

NoResult == [none |-> TRUE, items |-> <<>>]

\* (mutation: the mapping is returned as it is, empty or not)
get_compensation_section_no_sentinel(secs) ==
    [none |-> FALSE, items |-> relevance_loop(secs, 1, <<>>)]

\* return relevant_sections if relevant_sections else None
get_compensation_section(secs) ==
    LET relevant_sections == relevance_loop(secs, 1, <<>>)
    IN  IF relevant_sections # <<>>
        THEN [none |-> FALSE, items |-> relevant_sections]
        ELSE NoResult

(***************************************************************************)
(* Documents the segmenter is tried on: up to MaxBlocks blocks, each a     *)
(* heading-like element with or without the paragraph that follows it.     *)
(***************************************************************************)
t_executive_compensation ==
    <<"E","X","E","C","U","T","I","V","E"," ","C","O","M","P","E","N","S","A","T","I","O","N">>
t_summary ==
    <<"S","u","m","m","a","r","y",":">>
t_about_us ==
    <<"A","B","O","U","T"," ","U","S",":">>
t_about_us_spaced ==
    <<"A","B","O","U","T"," "," "," ","U","S",":">>
t_compensation ==
    <<"C","O","M","P","E","N","S","A","T","I","O","N">>
t_overview ==
    <<"O","v","e","r","v","i","e","w">>
c_section_title ==
    <<"S","e","c","t","i","o","n","-","T","i","t","l","e">>
s_bold ==
    <<"f","o","n","t","-","w","e","i","g","h","t",":"," ","b","o","l","d">>

LongFiller == P(Rep("x", BodyMinLen + 1))
EdgeFiller == P(Rep("y", BodyMinLen))

Blocks ==
    { << Elem("h3", <<>>, <<>>, <<t_executive_compensation>>), LongFiller >>,
      << P(t_summary), LongFiller >>,
      << P(t_about_us), EdgeFiller >>,
      << P(t_about_us_spaced), LongFiller >>,
      << P(t_compensation), LongFiller >>,
      << Elem("div", c_section_title, <<>>, <<t_summary>>) >>,
      << Elem("h1", <<>>, <<>>, <<Rep("Z", HeadingMaxLen)>>) >>,
      << Elem("span", <<>>, s_bold, <<t_overview>>) >> }

RECURSIVE Flatten(_)
Flatten(bs) == IF bs = <<>> THEN <<>> ELSE bs[1] \o Flatten(Tail(bs))

Docs == { Flatten(bs) : bs \in UNION { [1..n -> Blocks] : n \in 0..MaxBlocks } }

(***************************************************************************)
(* The end-to-end document: INTRO, filler, EXECUTIVE COMPENSATION (heading  *)
(* tag), table text, RISK FACTORS (heading tag), risk text.  The table is   *)
(* either a table element holding its cells as text nodes, or one text node *)
(* whose characters spell the markup (written with entities in the file).   *)
(***************************************************************************)
t_intro ==
    <<"I","N","T","R","O">>
t_risk_factors ==
    <<"R","I","S","K"," ","F","A","C","T","O","R","S">>
t_name ==
    <<"N","a","m","e">>
t_salary ==
    <<"S","a","l","a","r","y">>
t_bonus ==
    <<"B","o","n","u","s">>
t_table_markup ==
    <<"<","t","a","b","l","e",">"," ","N","a","m","e"," ","S","a","l","a","r","y"," ","B","o","n","u","s"," ">>

TableElement ==
    Elem("table", <<>>, <<>>, <<t_name, t_salary, t_bonus, Rep("9", BodyMinLen + 1)>>)
TableAsText ==
    P(t_table_markup \o Rep("9", BodyMinLen + 1))

ScenarioDoc(table) ==
    << P(t_intro), LongFiller,
       Elem("h2", <<>>, <<>>, <<t_executive_compensation>>), table,
       Elem("h2", <<>>, <<>>, <<t_risk_factors>>), P(Rep("r", BodyMinLen + 1)) >>

ScenarioDocs == { ScenarioDoc(TableElement), ScenarioDoc(TableAsText) }

\* documents without any text node: elements only
EmptyDocs ==
    { << Elem("div", <<>>, <<>>, <<>>) >>,
      << Elem("h1", <<>>, <<>>, <<>>), Elem("div", c_section_title, <<>>, <<>>),
         Elem("span", <<>>, s_bold, <<>>) >> }

Init ==
    /\ content \in Docs \cup ScenarioDocs \cup EmptyDocs
    /\ pc = "read"
    /\ headings = <<>>
    /\ sections = <<>>
    /\ relevant = NoResult
    /\ verdict = "unset"
    /\ FilingIdle
    /\ CompaniesIdle
    /\ RequestIdle
    /\ PoolIdle

IdentifyHeadings ==
    /\ pc = "read"
    /\ headings' = identify_headings(content)
    /\ pc' = "headed"
    /\ UNCHANGED <<content, sections, relevant, verdict>>
    /\ UNCHANGED <<filing_vars, company_vars, request_vars, pool_vars>>

ExtractSections ==
    /\ pc = "headed"
    /\ sections' = extract_sections(content, headings)
    /\ pc' = "sectioned"
    /\ UNCHANGED <<content, headings, relevant, verdict>>
    /\ UNCHANGED <<filing_vars, company_vars, request_vars, pool_vars>>

GetCompensationSection ==
    /\ pc = "sectioned"
    /\ relevant' = get_compensation_section(sections)
    /\ pc' = "done"
    /\ UNCHANGED <<content, headings, sections, verdict>>
    /\ UNCHANGED <<filing_vars, company_vars, request_vars, pool_vars>>

Next == IdentifyHeadings \/ ExtractSections \/ GetCompensationSection

Spec == Init /\ [][Next]_vars

(***************************************************************************)
(* identify_headings: the text-pattern loop on its own.  The documents     *)
(* are up to MaxTextNodes paragraphs of one text node each; the texts lie  *)
(* on both sides of every test of the loop.                                *)
(***************************************************************************)
t_ten_upper ==
    <<"A","B","C","D","E","F","G","H","I","J">>
t_compensation_colon ==
    <<"C","O","M","P","E","N","S","A","T","I","O","N",":">>
t_compensation_padded ==
    <<" ","\n","C","O","M","P","E","N","S","A","T","I","O","N",":"," ","\n">>
t_digits_colon ==
    <<"1","2","3","4","5","6","7","8","9","0","1",":">>
t_item_11 ==
    <<"I","T","E","M"," ","1","1"," ","P","A","Y">>
t_blank ==
    <<" ","\n"," ">>

PatternTexts ==
    { t_blank, t_about_us, t_compensation, t_ten_upper, t_compensation_colon,
      t_compensation_padded, t_summary, t_overview, t_digits_colon, t_item_11,
      Rep("Z", PatternTextLimit - 1), Rep("Z", PatternTextLimit),
      <<" ">> \o Rep("Z", PatternTextLimit - 1) \o <<"\n">>,
      Rep("z", PatternTextLimit - 2) \o <<":">>,
      Rep("z", PatternTextLimit - 1) \o <<":">> }

PatternDocs ==
    { [i \in 1..Len(ts) |-> P(ts[i])] :
          ts \in UNION { [1..n -> PatternTexts] : n \in 0..MaxTextNodes } }

InitPattern ==
    /\ content \in PatternDocs
    /\ pc = "pattern"
    /\ headings = <<>>
    /\ sections = <<>>
    /\ relevant = NoResult
    /\ verdict = "unset"
    /\ FilingIdle
    /\ CompaniesIdle
    /\ RequestIdle
    /\ PoolIdle

\* for elem in soup.find_all(string=True): ... headings.append(...)
TextPatternDetection ==
    /\ pc = "pattern"
    /\ headings' = headings \o text_candidates(content)
    /\ pc' = "patterned"
    /\ UNCHANGED <<content, sections, relevant, verdict>>
    /\ UNCHANGED <<filing_vars, company_vars, request_vars, pool_vars>>

NextPattern == TextPatternDetection

SpecPattern == InitPattern /\ [][NextPattern]_vars

(***************************************************************************)
(* Section mappings the relevance classifier is tried on: up to            *)
(* MaxSections sections with distinct titles.                              *)
(***************************************************************************)
title_executive_compensation ==
    <<"E","x","e","c","u","t","i","v","e"," ","C","o","m","p","e","n","s","a","t","i","o","n">>
title_risk_factors ==
    <<"R","i","s","k"," ","F","a","c","t","o","r","s">>
title_board ==
    <<"O","u","r"," ","B","o","a","r","d"," ","o","f"," ","D","i","r","e","c","t","o","r","s">>
b_table ==
    <<"<","t","a","b","l","e",">","<","t","r",">","<","t","d",">">>
b_table_upper ==
    <<"<","T","A","B","L","E"," ","b","o","r","d","e","r","=","1",">">>
b_comp ==
    <<"C","o","m","p","e","n","s","a","t","i","o","n"," ","D","i","s","c","u","s","s","i","o","n"," ">>
b_dir_comp ==
    <<" ","D","i","r","e","c","t","o","r"," ","C","o","m","p","e","n","s","a","t","i","o","n"," ">>
b_nominees ==
    <<"d","i","r","e","c","t","o","r"," ","n","o","m","i","n","e","e","s">>
b_officers ==
    <<"E","x","e","c","u","t","i","v","e"," ","O","f","f","i","c","e","r","s">>

SectionTitles == {title_executive_compensation, title_risk_factors, title_board}

SectionBodies ==
    { Rep("x", BodyMinLen + 1),
      b_table \o Rep("x", BodyMinLen),
      b_comp \o Rep("x", BodyMinLen),
      b_table_upper \o b_dir_comp \o Rep("x", BodyMinLen),
      Rep("x", KeywordWindow - Len(b_nominees)) \o b_nominees,
      Rep("x", KeywordWindow - Len(b_nominees) + 1) \o b_nominees,
      b_table \o Rep("x", KeywordWindow) \o b_officers \o b_dir_comp }

SectionInputs ==
    { d \in UNION { [1..n -> [title : SectionTitles, body : SectionBodies]] :
                      n \in 0..MaxSections } :
        \A i, j \in 1..Len(d) : d[i].title = d[j].title => i = j }

InitRelevance ==
    /\ content = <<>>
    /\ pc = "sectioned"
    /\ headings = <<>>
    /\ sections \in SectionInputs
    /\ relevant = NoResult
    /\ verdict = "unset"
    /\ FilingIdle
    /\ CompaniesIdle
    /\ RequestIdle
    /\ PoolIdle

NextRelevance == GetCompensationSection

SpecRelevance == InitRelevance /\ [][NextRelevance]_vars

(***************************************************************************)
(* parse_exec_compensation.py: process_companies and main                  *)
(* The query returns one row per company, with the file of its latest       *)
(* completed filing; a cik is a number of 1..MaxCompanies.                  *)
(***************************************************************************)
CompanyDocs ==
    { <<>>,
      << P(t_about_us), EdgeFiller >>,
      << Elem("h3", <<>>, <<>>, <<t_executive_compensation>>), LongFiller >>,
      ScenarioDoc(TableAsText) }

\* headings = identify_headings(content); sections = extract_sections(...);
\* relevant_sections = get_compensation_section(sections), for each document
parsed ==
    [doc \in CompanyDocs |->
        LET hs == identify_headings(doc)
            secs == extract_sections(doc, hs)
        IN  [headings |-> hs, sections |-> secs,
             relevant_sections |-> get_compensation_section(secs)]]

\* the file at file_path: one of the documents, or no file to open
CompanyFiles == {NoFile} \cup {File(d) : d \in CompanyDocs}

CompanyLists ==
    { [i \in 1..Len(files) |->
          [cik |-> i, doc |-> files[i].data, readable |-> files[i].exists]] :
        files \in UNION { [1..n -> CompanyFiles] : n \in 0..MaxCompanies } }

\* what extract_executive_info may return: json.loads of the service's answer,
\* a list of records that have a 'name' or not; the empty list also stands
\* for an extraction error
exec_a == [name |-> "A"]
exec_b == [name |-> "B"]
exec_unnamed == [current_role |-> "CFO"]
ExecutiveLists ==
    { <<>>, <<exec_a>>, <<exec_a, exec_b>>, <<exec_a, exec_unnamed>>,
      <<exec_unnamed, exec_a>>, <<exec_a, exec_unnamed, exec_b>> }

\* exec_data['name'] raises KeyError
raises_key_error(exec_data) == "name" \notin DOMAIN exec_data

\* the loop `for exec_data in executives` raised
store_raises(execs) == \E i \in 1..Len(execs) : raises_key_error(execs[i])

\* the exec_name of the rows the loop inserted before it ended or raised
inserted(execs) ==
    { execs[i].name : i \in { j \in 1..Len(execs) :
                                \A q \in 1..j : ~raises_key_error(execs[q]) } }

\* the message of the exception the loop body raises, "NULL" for none
error_msg(readable, secs, rel, execs) ==
    IF ~readable THEN "No such file or directory"
    ELSE IF secs = <<>> THEN "No sections found"
    ELSE IF rel.none THEN "No compensation section found"
    ELSE IF execs = <<>> THEN "No executive information extracted"
    ELSE IF store_raises(execs) THEN "'name'"
    ELSE "NULL"

\* (mutation: the try block encloses the loop, so the first exception ends it)
next_turn_stops(i, n, raised) == IF raised \/ i = n THEN 0 ELSE i + 1

\* the loop goes on to the next row, whether the body raised or not
next_turn(i, n, raised) == IF i = n THEN 0 ELSE i + 1

InitCompanies ==
    /\ content = <<>>
    /\ pc = "companies"
    /\ headings = <<>>
    /\ sections = <<>>
    /\ relevant = NoResult
    /\ verdict = "unset"
    /\ FilingIdle
    /\ companies \in CompanyLists
    /\ next_company = 0
    /\ processing_status = EmptyStatusTable
    /\ visits = NoCounts
    /\ extractions = NoCounts
    /\ run = 0
    /\ executives = <<>>
    /\ executive_data = NoExecutiveData
    /\ RequestIdle
    /\ PoolIdle

\* the position of the loop when it starts
first_company == IF companies = <<>> THEN 0 ELSE 1

\* main(): init_db() drops and creates the tables, then process_companies()
Main ==
    /\ next_company = 0
    /\ run < MaxRuns
    /\ processing_status' = EmptyStatusTable
    /\ next_company' = first_company
    /\ run' = run + 1
    /\ UNCHANGED <<content, pc, headings, sections, relevant, verdict>>
    /\ UNCHANGED <<companies, visits, extractions, executives>>
    /\ executive_data' = NoExecutiveData
    /\ UNCHANGED <<filing_vars, request_vars, pool_vars>>

\* process_companies() called on the tables as they are
ProcessCompanies ==
    /\ next_company = 0
    /\ run < MaxRuns
    /\ next_company' = first_company
    /\ run' = run + 1
    /\ UNCHANGED <<content, pc, headings, sections, relevant, verdict>>
    /\ UNCHANGED <<companies, processing_status, visits, extractions>>
    /\ UNCHANGED <<executives, executive_data>>
    /\ UNCHANGED <<filing_vars, request_vars, pool_vars>>

\* (mutation: a company marked 'failed' counts as processed too)
already_processed_or_failed(status) == status \in {"completed", "failed"}

\* if status and status[0] == 'completed'
already_processed(status) == status = "completed"

\* one turn of the loop `for cik, name, filing_date, file_path in companies`:
\* the inserts of the turn and its status row are made durable by the one
\* conn.commit() that ends the try block or the handler
ProcessCompany ==
    /\ next_company \in 1..Len(companies)
    /\ LET cik == companies[next_company].cik
           doc == companies[next_company].doc
           readable == companies[next_company].readable
           hs == parsed[doc].headings
           secs == parsed[doc].sections
           rel == parsed[doc].relevant_sections
       IN  IF already_processed(processing_status[cik].status)
           THEN /\ next_company' = next_turn(next_company, Len(companies), FALSE)
                /\ UNCHANGED <<content, headings, sections, relevant,
                               processing_status, visits, extractions,
                               executives, executive_data>>
           ELSE LET called == IF readable THEN secs # <<>> /\ ~rel.none ELSE FALSE
                IN  \E execs \in (IF called THEN ExecutiveLists ELSE {<<>>}) :
                  LET error == error_msg(readable, secs, rel, execs)
                  IN  /\ visits' = [visits EXCEPT ![cik] = @ + 1]
                      /\ content' = IF readable THEN doc ELSE content
                      /\ headings' = IF readable THEN hs ELSE headings
                      /\ sections' = IF readable THEN secs ELSE sections
                      /\ relevant' = IF readable THEN (IF secs = <<>> THEN relevant ELSE rel)
                                     ELSE relevant
                      /\ extractions' = IF called THEN [extractions EXCEPT ![cik] = @ + 1]
                                        ELSE extractions
                      /\ executives' = IF called THEN execs ELSE executives
                      /\ executive_data' =
                             IF called
                             THEN [executive_data EXCEPT ![cik] = @ \cup inserted(execs)]
                             ELSE executive_data
                      /\ processing_status' = [processing_status EXCEPT ![cik] =
                             IF error = "NULL" THEN Status("completed", "NULL")
                             ELSE Status("failed", error)]
                      /\ next_company' = next_turn(next_company, Len(companies),
                                                   error # "NULL")
    /\ UNCHANGED <<pc, verdict, companies, run>>
    /\ UNCHANGED <<filing_vars, request_vars, pool_vars>>

NextCompanies == Main \/ ProcessCompanies \/ ProcessCompany

SpecCompanies == InitCompanies /\ [][NextCompanies]_vars

\* the loop is a sequential program: a turn that can be taken is taken
\* the for loop moves on to its next row (a step of ProcessCompany, seen by
\* its effect on the loop position alone)
LoopAdvances ==
    /\ next_company \in 1..Len(companies)
    /\ next_company' = next_turn(next_company, Len(companies), FALSE)

SpecCompaniesFair == SpecCompanies /\ WF_next_company(LoopAdvances)

\* the loop has just taken the turn of company number i
TurnOf(i) == next_company = i /\ i \in 1..Len(companies) /\ next_company' # next_company

NoSectionsFailure == Status("failed", "No sections found")

\* C18 as claimed: once a company is marked failed for want of sections, no
\* later turn of the loop, in this run or a later one, processes it again.
C18_FailedNeverProcessedAgain ==
    [][ \A c \in Ciks :
           processing_status[c] = NoSectionsFailure => visits'[c] = visits[c] ]_vars

\* C18 as amended: a company whose filing yields no sections is marked failed
\* with the message 'No sections found' without a call of the extractor, and
\* has one turn per run; on its turn a company is skipped exactly when its
\* status is 'completed', so a failed company is processed again by a later
\* run, and main processes every company again.
C18_FailedMarkedAndProcessedAgain ==
    [][ /\ \A i \in 1..Len(companies) :
              TurnOf(i) =>
                  LET c == companies[i].cik
                  IN  IF processing_status[c].status = "completed"
                      THEN visits'[c] = visits[c] /\ processing_status' = processing_status
                      ELSE /\ visits'[c] = visits[c] + 1
                           /\ companies[i].readable =>
                                 /\ sections' = extract_sections(companies[i].doc,
                                                    identify_headings(companies[i].doc))
                                 /\ sections' = <<>> =>
                                       /\ processing_status'[c] = NoSectionsFailure
                                       /\ extractions'[c] = extractions[c]
        /\ \A c \in Ciks : visits'[c] <= run' ]_vars

\* a company marked failed for want of sections was processed in two runs
C18_Witness ==
    \E c \in Ciks :
        /\ processing_status[c] = NoSectionsFailure
        /\ visits[c] = 2
        /\ extractions[c] = 0

(***************************************************************************)
(* Properties of segmentation.                                             *)
(***************************************************************************)
Headed == pc \in {"headed", "sectioned", "done"}
Sectioned == pc \in {"sectioned", "done"}

Titles == {sections[k].title : k \in 1..Len(sections)}
HeadingTexts == {headings[i].text : i \in 1..Len(headings)}
BodyOf(t) == sections[CHOOSE k \in 1..Len(sections) : sections[k].title = t].body
DetectionRank(t) == CHOOSE i \in 1..Len(headings) : headings[i].text = t
ScoreOf(t) == headings[DetectionRank(t)].score
IsPrefix(a, b) == Len(a) <= Len(b) /\ SubSeq(b, 1, Len(a)) = a

\* the body is carved from `start` and stops at or before position `limit`
EndsAtOrBefore(te, body, start, limit) ==
    \E e \in (start + 1)..limit : body = carve(te, start, e)

\* C2: the end boundary of a section is the nearest match, after the section's
\* start, of ANY other heading of the list, whatever that heading's confidence:
\* the body stops before every such match.
C2_EndIsNearestOverFullList ==
    Sectioned =>
        LET te == text_elements_of(content)
        IN  \A k \in 1..Len(sections) :
                LET start == start_idx(te, sections[k].title)
                IN  \A i \in 1..Len(headings) :
                        LET j == next_idx(te, headings[i].text, start)
                        IN  (headings[i].text # sections[k].title /\ j # 0)
                                => EndsAtOrBefore(te, sections[k].body, start, j)

\* C3: with three detected headings H1, H2, H3 first occurring in that order
\* in the text-node stream, the section of H1 holds neither the node of H2 nor
\* any node after it.
C3_BoundaryCorrectness ==
    Sectioned =>
        LET te == text_elements_of(content)
            at == [i \in 1..Len(headings) |-> start_idx(te, headings[i].text)]
        IN  \A h1, h2, h3 \in 1..Len(headings) :
                (0 < at[h1] /\ at[h1] < at[h2] /\ at[h2] < at[h3]
                     /\ headings[h1].text \in Titles)
                    => EndsAtOrBefore(te, BodyOf(headings[h1].text), at[h1], at[h2])

\* the positions in the raw list `norm` of the candidates whose text is t
RawOf(norm, t) == {k \in 1..Len(norm) : norm[k] = t}
Normalized(raw) == [k \in 1..Len(raw) |-> normalize(raw[k].text)]
MaxScore(raw, norm, t) == SetMax({raw[k].score : k \in RawOf(norm, t)})

\* C4: every normalized heading text is returned exactly once, in order of
\* first insertion, with the confidence of the first raw candidate that has
\* that normalized text; later candidates change nothing.
C4_FirstSeenWins ==
    Headed =>
        LET raw == raw_headings(content)
            norm == Normalized(raw)
            first == [i \in 1..Len(headings) |->
                         IF RawOf(norm, headings[i].text) = {} THEN 0
                         ELSE SetMin(RawOf(norm, headings[i].text))]
        IN  /\ \A i, j \in 1..Len(headings) :
                  headings[i].text = headings[j].text => i = j
            /\ \A i \in 1..Len(headings) :
                  first[i] # 0 /\ headings[i].score = raw[first[i]].score
            /\ \A i, j \in 1..Len(headings) : i < j => first[i] < first[j]
            /\ \A k \in 1..Len(raw) :
                  (norm[k] # <<>> /\ Len(norm[k]) < 200) => norm[k] \in HeadingTexts

\* a text found by two signals with different confidences was returned once
C4_Witness ==
    /\ Headed
    /\ LET raw == raw_headings(content)
           norm == Normalized(raw)
       IN  \E i \in 1..Len(headings) : \E a, b \in RawOf(norm, headings[i].text) :
               a < b /\ raw[a].score # raw[b].score

\* C5 as claimed: the confidence kept for a heading text is the maximum
\* confidence among all raw candidates with that normalized text.
C5_KeepsMaximum ==
    Headed =>
        LET raw == raw_headings(content)
            norm == Normalized(raw)
        IN  \A i \in 1..Len(headings) :
                headings[i].score = MaxScore(raw, norm, headings[i].text)

\* C5 as amended: the confidence kept is the maximum, except when the first
\* candidate for the text is a 0.5 trailing-colon text node and a 0.6 all-caps
\* text node with the same normalized text follows it: then 0.5 is kept.
C5_KeepsMaximumUnlessColonFirst ==
    Headed =>
        LET raw == raw_headings(content)
            norm == Normalized(raw)
        IN  \A i \in 1..Len(headings) :
                LET t == headings[i].text
                IN  \/ headings[i].score = MaxScore(raw, norm, t)
                    \/ /\ headings[i].score = 5
                       /\ MaxScore(raw, norm, t) = 6
                       /\ raw[SetMin(RawOf(norm, t))].score = 5

\* a text with candidates of different confidences, the largest of them kept
C5_Witness ==
    /\ Headed
    /\ LET raw == raw_headings(content)
           norm == Normalized(raw)
       IN  \E i \in 1..Len(headings) :
               /\ \E a, b \in RawOf(norm, headings[i].text) : raw[a].score # raw[b].score
               /\ headings[i].score = MaxScore(raw, norm, headings[i].text)

\* C6: every heading text returned is non-empty, trimmed, free of whitespace
\* runs and shorter than 200 characters; a candidate whose normalized text has
\* 200 characters or more is not returned.
C6_HeadingTextShape ==
    Headed =>
        /\ \A i \in 1..Len(headings) :
              LET t == headings[i].text
              IN  /\ t # <<>>
                  /\ t[1] \notin Whitespace
                  /\ t[Len(t)] \notin Whitespace
                  /\ \A q \in 1..(Len(t) - 1) :
                        ~(t[q] \in Whitespace /\ t[q + 1] \in Whitespace)
                  /\ Len(t) < 200
        /\ LET norm == Normalized(raw_headings(content))
           IN  \A k \in 1..Len(norm) : Len(norm[k]) >= 200 => norm[k] \notin HeadingTexts

\* a candidate of 200 characters was dropped and one holding a whitespace run
\* was returned normalized
C6_Witness ==
    /\ Headed
    /\ LET raw == raw_headings(content)
           norm == Normalized(raw)
       IN  /\ \E k \in 1..Len(raw) : Len(norm[k]) >= 200
           /\ \E k \in 1..Len(raw) : raw[k].text # norm[k] /\ norm[k] \in HeadingTexts

\* what the loop carves for the i-th heading of the sorted list
CarvedBody(te, hs, i) ==
    LET start == start_idx(te, hs[i].text)
    IN  carve(te, start, end_idx(te, hs, i, start))

\* C7: every section has a title shorter than 200 characters and a body longer
\* than 100; a heading whose carved body has 100 characters or fewer is absent.
C7_LengthInvariants ==
    Sectioned =>
        /\ \A k \in 1..Len(sections) :
              Len(sections[k].title) < 200 /\ Len(sections[k].body) > 100
        /\ LET te == text_elements_of(content)
               hs == sorted_by_score(headings)
           IN  \A i \in 1..Len(hs) :
                   (start_idx(te, hs[i].text) # 0 /\ Len(CarvedBody(te, hs, i)) <= 100)
                       => hs[i].text \notin Titles

\* one heading kept with its section, another dropped for a body of exactly
\* 100 characters
C7_Witness ==
    /\ Sectioned
    /\ sections # <<>>
    /\ LET te == text_elements_of(content)
           hs == sorted_by_score(headings)
       IN  \E i \in 1..Len(hs) :
               /\ start_idx(te, hs[i].text) # 0
               /\ Len(CarvedBody(te, hs, i)) = 100
               /\ hs[i].text \notin Titles

\* the start index of every heading of the confidence-sorted list
StartsOfSorted ==
    LET te == text_elements_of(content)
        hs == sorted_by_score(headings)
    IN  [i \in 1..Len(hs) |-> [text |-> hs[i].text, at |-> start_idx(te, hs[i].text)]]

SameStart(st, i, j) == i < j /\ st[i].at # 0 /\ st[i].at = st[j].at

\* C8 as claimed: of two headings with the same start index the one processed
\* later never appears in the section mapping.
C8_LaterOfSameStartDropped ==
    Sectioned =>
        LET st == StartsOfSorted
        IN  \A i, j \in 1..Len(st) : SameStart(st, i, j) => st[j].text \notin Titles

\* C8 as amended: of two headings with the same start index the one processed
\* later gets a span at least as long as the earlier one's: whenever the
\* earlier one is in the mapping the later one is too, and its body starts
\* with the earlier one's body.
C8_LaterOfSameStartExtends ==
    Sectioned =>
        LET st == StartsOfSorted
        IN  \A i, j \in 1..Len(st) :
                (SameStart(st, i, j) /\ st[i].text \in Titles)
                    => /\ st[j].text \in Titles
                       /\ IsPrefix(BodyOf(st[i].text), BodyOf(st[j].text))

\* two headings with the same start index are both in the mapping
C8_Witness ==
    /\ Sectioned
    /\ LET st == StartsOfSorted
       IN  \E i, j \in 1..Len(st) :
               SameStart(st, i, j) /\ st[i].text \in Titles /\ st[j].text \in Titles

\* C9 as claimed: the keys of the section mapping are in detection order (the
\* order of the list identify_headings returned).
C9_KeysInDetectionOrder ==
    Sectioned =>
        \A a, b \in 1..Len(sections) :
            a < b => DetectionRank(sections[a].title) < DetectionRank(sections[b].title)

\* C9 as amended: the keys of the section mapping are in the order of the
\* headings sorted by descending confidence, detection order breaking ties.
C9_KeysInConfidenceOrder ==
    Sectioned =>
        \A a, b \in 1..Len(sections) :
            a < b =>
                \/ ScoreOf(sections[a].title) > ScoreOf(sections[b].title)
                \/ /\ ScoreOf(sections[a].title) = ScoreOf(sections[b].title)
                   /\ DetectionRank(sections[a].title) < DetectionRank(sections[b].title)

\* a mapping whose key order differs from the detection order
C9_Witness ==
    /\ Sectioned
    /\ \E a, b \in 1..Len(sections) :
          a < b /\ DetectionRank(sections[a].title) > DetectionRank(sections[b].title)

(***************************************************************************)
(* Properties of relevance classification.                                 *)
(***************************************************************************)
CompensationKeywords == {section_keywords[1].keywords[k] : k \in 1..4}
BiographyKeywords == {section_keywords[2].keywords[k] : k \in 1..4}

\* a keyword lies in the lower-cased title, or wholly within the first 1000
\* characters of the lower-cased body
Mentions(title_lower, body_lower, kws) ==
    \E kw \in kws :
        \/ In(kw, title_lower)
        \/ \E p \in 1..((IF Len(body_lower) < 1000 THEN Len(body_lower) ELSE 1000)
                          - Len(kw) + 1) :
               body_lower[p] = kw[1] /\ WordAt(kw, body_lower, p)

Qualifies(sec) ==
    LET title_lower == lower(sec.title)
        body_lower == lower(sec.body)
    IN  \/ Mentions(title_lower, body_lower, CompensationKeywords) /\ has_tables(sec.body)
        \/ Mentions(title_lower, body_lower, BiographyKeywords)

KeptTitles == {relevant.items[k].title : k \in 1..Len(relevant.items)}

\* C10: a section is kept if and only if a compensation keyword is in its
\* title or in the first 1000 characters of its body and the body holds a table
\* element, or a biography keyword is in its title or in the first 1000
\* characters of its body; a keyword only beyond character 1000 does not count.
C10_KeptIffQualifies ==
    pc = "done" =>
        \A k \in 1..Len(sections) :
            sections[k].title \in KeptTitles <=> Qualifies(sections[k])

\* a section whose only keyword lies beyond character 1000 was dropped while
\* another section was kept
C10_Witness ==
    /\ pc = "done"
    /\ KeptTitles # {}
    /\ \E k \in 1..Len(sections) :
          /\ sections[k].title \notin KeptTitles
          /\ LET body_lower == lower(sections[k].body)
             IN  \E kw \in BiographyKeywords :
                     \E p \in 1000..Len(body_lower) : WordAt(kw, body_lower, p)

\* the sections of the input titled "Executive Compensation"
TitledExecutiveCompensation ==
    {k \in 1..Len(sections) : sections[k].title = title_executive_compensation}

\* C11 as claimed: a section titled "Executive Compensation" is kept exactly
\* when its body holds a table element, whatever else the body mentions.
C11_KeptIffTable ==
    pc = "done" =>
        \A k \in TitledExecutiveCompensation :
            sections[k].title \in KeptTitles <=> has_tables(sections[k].body)

\* C11 as amended: a section titled "Executive Compensation" is kept when its
\* body holds a table element; without one it is kept exactly when a biography
\* keyword lies in the first 1000 characters of its body.
C11_KeptIffTableOrBiography ==
    pc = "done" =>
        \A k \in TitledExecutiveCompensation :
            sections[k].title \in KeptTitles <=>
                \/ has_tables(sections[k].body)
                \/ Mentions(<<>>, lower(sections[k].body), BiographyKeywords)

\* a section titled "Executive Compensation" whose body mentions another
\* compensation keyword and holds no table was dropped
C11_Witness ==
    /\ pc = "done"
    /\ \E k \in TitledExecutiveCompensation :
          /\ ~has_tables(sections[k].body)
          /\ In(kw_compensation_discussion, body_window(sections[k].body))
          /\ sections[k].title \notin KeptTitles

\* C12: the result, when not the sentinel, is the input mapping restricted to
\* the kept titles: the same (title, body) pairs, none added, in the order of
\* the input mapping.
C12_FilteredViewInInputOrder ==
    pc = "done" =>
        /\ relevant.items =
              SelectSeq(sections, LAMBDA sec : sec.title \in KeptTitles)
        /\ \A i, j \in 1..Len(relevant.items) :
              relevant.items[i].title = relevant.items[j].title => i = j

\* two sections were kept, the first through the biography category only and
\* the second through the compensation category
C12_Witness ==
    /\ pc = "done"
    /\ ~relevant.none
    /\ Len(relevant.items) = 2
    /\ LET first == relevant.items[1]
           second == relevant.items[2]
       IN  /\ ~Mentions(lower(first.title), lower(first.body), CompensationKeywords)
           /\ Mentions(lower(second.title), lower(second.body), CompensationKeywords)
           /\ has_tables(second.body)

(***************************************************************************)
(* Properties of the whole pipeline.                                       *)
(***************************************************************************)
\* C13: on the end-to-end document segmentation returns exactly two sections,
\* and classification keeps exactly EXECUTIVE COMPENSATION.
C13_EndToEndScenario ==
    (pc = "done" /\ content \in ScenarioDocs) =>
        /\ Titles = {t_executive_compensation, t_risk_factors}
        /\ Len(sections) = 2
        /\ ~relevant.none
        /\ KeptTitles = {t_executive_compensation}

NoTextNodes == find_all_strings(content) = <<>>

\* C14: a document with no text nodes gives an empty heading list, an empty
\* section mapping and the sentinel; the sentinel is returned exactly when no
\* input section qualifies, and an empty mapping is never returned in its place.
C14_EmptyDocumentAndSentinel ==
    /\ (Headed /\ NoTextNodes) => headings = <<>>
    /\ (Sectioned /\ NoTextNodes) => sections = <<>>
    /\ pc = "done" =>
          /\ NoTextNodes => relevant.none
          /\ relevant.none <=> (\A k \in 1..Len(sections) : ~Qualifies(sections[k]))
          /\ relevant.none <=> (relevant.items = <<>>)

\* a document of elements without text went through the three stages and
\* ended with the sentinel
C14_Witness ==
    /\ pc = "done"
    /\ content # <<>>
    /\ NoTextNodes
    /\ headings = <<>>
    /\ sections = <<>>
    /\ relevant.none

\* the values the three operations return
IsHeadingList(v) ==
    /\ DOMAIN v = 1..Len(v)
    /\ \A i \in 1..Len(v) : DOMAIN v[i] = {"text", "score"} /\ v[i].score \in {5, 6, 7, 8, 9}
IsMapping(v) ==
    /\ DOMAIN v = 1..Len(v)
    /\ \A i \in 1..Len(v) : DOMAIN v[i] = {"title", "body"}
    /\ \A i, j \in 1..Len(v) : v[i].title = v[j].title => i = j

\* C15: on every input each operation returns a value of its kind (a false
\* verdict for a document without text, a heading list, a mapping, a
\* non-empty mapping or the sentinel); a heading that no
\* text node holds is skipped, and every heading that can be located and has a
\* long enough body still gets its section.
C15_TotalAndSkipsUnlocatable ==
    /\ NoTextNodes => validate_filing_content(content) \in {"False", "None"}
    /\ Headed => IsHeadingList(headings)
    /\ Sectioned => IsMapping(sections)
    /\ pc = "done" => (relevant.none \/ (relevant.items # <<>> /\ IsMapping(relevant.items)))
    /\ Sectioned =>
          LET te == text_elements_of(content)
              hs == sorted_by_score(headings)
          IN  \A i \in 1..Len(hs) :
                  IF start_idx(te, hs[i].text) = 0
                  THEN hs[i].text \notin Titles
                  ELSE Len(CarvedBody(te, hs, i)) > BodyMinLen => hs[i].text \in Titles

\* a heading that no text node holds was skipped and a heading processed after
\* it got its section
C15_Witness ==
    /\ Sectioned
    /\ LET te == text_elements_of(content)
           hs == sorted_by_score(headings)
       IN  \E i, j \in 1..Len(hs) :
               /\ i < j
               /\ start_idx(te, hs[i].text) = 0
               /\ hs[j].text \in Titles

\* the text nodes that hold the text t
NodesHolding(te, t) == {n \in 1..Len(te) : In(t, te[n])}

\* the text nodes after node s that hold the text of a heading placed after
\* position i of the sorted list hs
NodesBounding(te, hs, i, s) ==
    {n \in (s + 1)..Len(te) : \E j \in (i + 1)..Len(hs) : In(hs[j].text, te[n])}

\* C20: the section of a heading starts at the first text node that holds the
\* heading text, and its body is the newline-join of exactly the nodes after
\* that node and before the node of the bounding heading (or the end of the
\* stream): neither of the two nodes is in the body.
C20_FirstMatchStartExclusiveSpan ==
    Sectioned =>
        LET te == text_elements_of(content)
            hs == sorted_by_score(headings)
        IN  \A k \in 1..Len(sections) :
                LET t == sections[k].title
                    i == CHOOSE i \in 1..Len(hs) : hs[i].text = t
                    holding == NodesHolding(te, t)
                    s == SetMin(holding)
                    bounding == NodesBounding(te, hs, i, s)
                    e == IF bounding = {} THEN Len(te) + 1 ELSE SetMin(bounding)
                IN  /\ holding # {}
                    /\ sections[k].body =
                          join(<<"\n">>, [n \in 1..(e - s - 1) |-> te[s + n]])

\* a section whose heading text lies in two text nodes and whose body stops
\* before the node of another heading
C20_Witness ==
    /\ Sectioned
    /\ LET te == text_elements_of(content)
           hs == sorted_by_score(headings)
       IN  \E k \in 1..Len(sections) :
               LET t == sections[k].title
                   i == CHOOSE i \in 1..Len(hs) : hs[i].text = t
                   holding == NodesHolding(te, t)
               IN  /\ Cardinality(holding) >= 2
                   /\ NodesBounding(te, hs, i, SetMin(holding)) # {}

(***************************************************************************)
(* Properties of the text-pattern signal.                                  *)
(***************************************************************************)
\* a text with a cased character whose cased characters are all uppercase
EntirelyUppercase(t) ==
    /\ \E i \in 1..Len(t) : t[i] \in UpperSet
    /\ \A i \in 1..Len(t) : t[i] \notin LowerSet

\* the confidence, in tenths, a trimmed text node is to get; 0 for no candidate
SignalConfidence(t) ==
    IF t = <<>> \/ Len(t) >= 100 THEN 0
    ELSE IF EntirelyUppercase(t) /\ Len(t) > 10 THEN 6
    ELSE IF t[Len(t)] = ":" THEN 5
    ELSE 0

TrimmedNodes == [i \in 1..Len(find_all_strings(content)) |->
                    strip(find_all_strings(content)[i])]
EmittingNodes == {i \in 1..Len(TrimmedNodes) : SignalConfidence(TrimmedNodes[i]) # 0}

\* C21: the text-pattern signal emits a candidate for a trimmed text node
\* exactly when the node is non-empty, shorter than 100 characters and either
\* uppercase and longer than 10 characters (confidence 0.6) or, otherwise,
\* ends with a colon (confidence 0.5); every emitting node gives one candidate,
\* in document order, and a node of 100 or more characters gives none.
C21_TextPatternSignal ==
    pc = "patterned" =>
        /\ Len(headings) = Cardinality(EmittingNodes)
        /\ \A k \in 1..Len(headings) :
               \E i \in EmittingNodes :
                   /\ Cardinality({j \in EmittingNodes : j <= i}) = k
                   /\ headings[k] = Scored(TrimmedNodes[i], SignalConfidence(TrimmedNodes[i]))

\* the loop went over an uppercase node that ends with a colon and gave it the
\* one candidate of confidence 0.6, and over a node of 100 characters
C21_Witness ==
    /\ pc = "patterned"
    /\ \E i, j \in 1..Len(TrimmedNodes) :
           /\ TrimmedNodes[i] = t_compensation_colon
           /\ Len(TrimmedNodes[j]) >= 100
    /\ headings = << Scored(t_compensation_colon, 6) >>

(***************************************************************************)
(* Properties of process_companies.                                        *)
(***************************************************************************)
Returned == next_company = 0 /\ run > 0
Listed == {companies[i].cik : i \in 1..Len(companies)}

\* C25: when process_companies has returned, executive_data holds rows for a
\* company only if the company's processing_status is 'completed': a company
\* that ended in the failure branch has no row committed.
C25_RowsOnlyForCompleted ==
    Returned =>
        \A c \in Ciks :
            executive_data[c] # {} => processing_status[c].status = "completed"

\* C26: a call of process_companies takes the rows of its list in order, one
\* turn each, whether a turn failed or not, and comes to its end; when it has
\* returned every listed company has a row with status 'completed' or
\* 'failed'; and a turn writes 'completed' only after it read the file and
\* found sections, relevant sections and executives.
C26_EveryCompanyOnceAndMarked ==
    /\ [][ /\ (next_company = 0 /\ next_company' # 0) => next_company' = 1
           /\ \A i \in 1..Len(companies) :
                  TurnOf(i) =>
                      LET c == companies[i].cik
                      IN  /\ next_company' = IF i = Len(companies) THEN 0 ELSE i + 1
                          /\ processing_status'[c].status \in {"completed", "failed"}
                          /\ \A d \in Ciks \ {c} :
                                 processing_status'[d] = processing_status[d]
                          /\ ( /\ processing_status[c].status # "completed"
                               /\ processing_status'[c].status = "completed" )
                             => ( /\ companies[i].readable
                                  /\ content' = companies[i].doc
                                  /\ sections' # <<>>
                                  /\ ~relevant'.none
                                  /\ executives' # <<>> ) ]_vars
    /\ [](Returned => \A c \in Listed :
                          processing_status[c].status \in {"completed", "failed"})
    /\ \A n \in 1..MaxRuns : (run = n /\ next_company # 0) ~> (run = n /\ next_company = 0)

\* a call returned after a company whose file could not be read had failed and
\* the company after it had been completed
C26_Witness ==
    /\ Returned
    /\ Len(companies) >= 2
    /\ ~companies[1].readable
    /\ processing_status[companies[1].cik].status = "failed"
    /\ processing_status[companies[2].cik].status = "completed"

=============================================================================
